---- MODULE Spec2Model ----
(***************************************************************************)
(* Model of the image-upscaler request handlers:                           *)
(*   "index"  : server/index.js, app.post('/api/upscale') at lines 501-628 *)
(*              with processImageInChunks at lines 405-499                 *)
(*   "legacy" : server/index.js, app.post('/api/upscale') at lines 162-282 *)
(*              with processImageInChunks at lines 79-160                  *)
(*   "api"    : api/upscale.ts, handler at lines 26-99                     *)
(* and of its client:                                                      *)
(*   src/App.tsx (handleUpscale, handleReset, file selection),             *)
(*   src/services/imageService.ts (validateImage, checkServerHealth,       *)
(*   uploadAndProcessImage), src/types.ts (PRINT_DIMENSIONS)               *)
(* Specifications: Spec (one request at any of the handlers), SpecPair     *)
(* (two requests in flight at the index handler), SpecClient (the App      *)
(* driving the index handler).                                             *)
(* A request is one record; every await of a handler is a step boundary.   *)
(* Strings the code takes apart (query values, MIME types) are tuples of   *)
(* one-character strings; JavaScript numbers are records [nan, v].         *)
(***************************************************************************)
EXTENDS Integers, Sequences, FiniteSets, TLC

VARIABLES
  reqs,   \* the requests at the server, by slot
  app,    \* the state of the App component
  calls   \* the invocations of handleUpscale, by slot

vars == <<reqs, app, calls>>

\* the variables of the client
client == <<app, calls>>

\* ------------------------------------------------------------------------
\* Bounds of the model
\* ------------------------------------------------------------------------
\* uploads are tried with sizes up to ceiling + MaxOverBytes
MaxOverBytes == 1

\* the user toggles up to MaxSelected cards of the selector one by one
\* ('Select All' selects every card)
MaxSelected == 1

\* ------------------------------------------------------------------------
\* Program constants
\* ------------------------------------------------------------------------
MB == 1024 * 1024

\* const MAX_SAFE_PIXELS = 100000000
MAX_SAFE_PIXELS == 100000000

\* const CHUNK_SIZE = 5000 (legacy processImageInChunks)
CHUNK_SIZE == 5000

\* Math.min(10000, ...) cap of the index handler
MAX_EDGE == 10000

DEFAULT_WIDTH == 7200
DEFAULT_HEIGHT == 10800
DEFAULT_DPI == 300

\* limitInputPixels: Math.pow(32768, 2) (legacy processImageInChunks)
LEGACY_PIXEL_LIMIT == 32768 * 32768

Handlers == {"index", "legacy", "api"}

\* const MAX_FILE_SIZE / limits.fileSize of each handler's multer instance
MAX_FILE_SIZE(h) ==
  CASE h = "index"  -> 100 * MB
    [] h = "legacy" -> 50 * MB
    [] h = "api"    -> 10 * MB

\* ------------------------------------------------------------------------
\* JavaScript values
\* ------------------------------------------------------------------------
Num(n) == [nan |-> FALSE, v |-> n]
NaN == [nan |-> TRUE, v |-> 0]

\* x || d on numbers: NaN and 0 are falsy
OrDefault(x, d) == IF x.nan \/ x.v = 0 THEN Num(d) ELSE x

\* Math.min(a, b): NaN if either is NaN
MathMin(a, b) ==
  IF a.nan \/ b.nan THEN NaN
  ELSE IF a.v <= b.v THEN a ELSE b

\* a string of the request, as a tuple of characters
Str(chars) == [present |-> TRUE, s |-> chars]
\* an absent (undefined) query parameter
Absent == [present |-> FALSE, s |-> <<>>]

IsDigit(c) == c \in {"0", "1", "2", "3", "4", "5", "6", "7", "8", "9"}

DigitVal(c) ==
  CASE c = "0" -> 0 [] c = "1" -> 1 [] c = "2" -> 2 [] c = "3" -> 3
    [] c = "4" -> 4 [] c = "5" -> 5 [] c = "6" -> 6 [] c = "7" -> 7
    [] c = "8" -> 8 [] c = "9" -> 9

\* the leading run of digits of s from position i, as a number
RECURSIVE ParseDigits(_, _, _)
ParseDigits(s, i, acc) ==
  IF i > Len(s) \/ ~IsDigit(s[i]) THEN acc
  ELSE ParseDigits(s, i + 1, 10 * acc + DigitVal(s[i]))

\* parseInt(chars, 10): optional sign, then the leading digits; NaN if none
ParseIntChars(s) ==
  LET neg == Len(s) >= 1 /\ s[1] = "-"
      start == IF Len(s) >= 1 /\ s[1] \in {"-", "+"} THEN 2 ELSE 1
  IN IF start > Len(s) \/ ~IsDigit(s[start]) THEN NaN
     ELSE LET n == ParseDigits(s, start, 0)
          IN Num(IF neg THEN 0 - n ELSE n)

\* parseInt(q, 10) of a query parameter; parseInt(undefined) is NaN
ParseInt(q) == IF q.present THEN ParseIntChars(q.s) ELSE NaN

\* q || dflt on strings, then parseInt: undefined and '' are falsy
ParseIntOrString(q, dflt) ==
  IF q.present /\ q.s # <<>> THEN ParseIntChars(q.s) ELSE ParseIntChars(dflt)

\* file.mimetype.startsWith('image/')
StartsWithImage(m) ==
  Len(m) >= 6 /\ SubSeq(m, 1, 6) = <<"i", "m", "a", "g", "e", "/">>

\* ------------------------------------------------------------------------
\* Error messages and String.prototype.includes on them
\* ------------------------------------------------------------------------
MsgUnsupported == "Input buffer contains unsupported image format"
MsgCorruptHeader == "Input buffer has corrupt header"
MsgBufferEmpty == "Input Buffer is empty"
MsgPixelLimit == "Input image exceeds pixel limit"
MsgMemory == "vips_malloc: out of memory"
MsgInvalidParam == "Expected positive integer for parameter"
MsgOther == "VipsJpeg: write error"
MsgOnlyImages == "Only image files are allowed"
MsgFileTooLarge == "File too large"
MsgInvalidBuffer == "Invalid image buffer"
MsgInvalidDimensions == "Invalid image dimensions"

PatUnsupported == "Input buffer contains unsupported image format"
PatPixelLimit == "Input image exceeds pixel limit"
PatMemory == "memory"

\* message.includes(pattern), tabulated over the messages above
Includes(message, pattern) ==
  CASE pattern = PatUnsupported -> message = MsgUnsupported
    [] pattern = PatPixelLimit  -> message = MsgPixelLimit
    [] pattern = PatMemory      -> message = MsgMemory
    [] OTHER                    -> FALSE

\* a thrown Error; code is multer's err.code ("" when there is none)
Err(message, code) == [message |-> message, code |-> code]
NoErr == [message |-> "", code |-> ""]

\* ------------------------------------------------------------------------
\* Responses
\* ------------------------------------------------------------------------
\* the details string: a text and the numbers interpolated into it
Details(text, args) == [text |-> text, args |-> args]
NoDetails == Details("", <<>>)

NoResponse ==
  [status |-> 0, kind |-> "none", error |-> "", details |-> NoDetails,
   width |-> NaN, height |-> NaN, dpi |-> NaN]

\* res.status(s).json({ error, details })
Json(s, error, details) ==
  [status |-> s, kind |-> "json", error |-> error, details |-> details,
   width |-> NaN, height |-> NaN, dpi |-> NaN]

\* res.set({... 'X-Image-Width', 'X-Image-Height', 'X-Image-DPI'}); res.send(data)
ImageResponse(info, dpi) ==
  [status |-> 200, kind |-> "image/jpeg", error |-> "", details |-> NoDetails,
   width |-> Num(info.width), height |-> Num(info.height), dpi |-> dpi]

\* fault variant of the catch: the fallback answers without res.status(500)
IndexCatchNoStatus(e) ==
  IF Includes(e.message, PatUnsupported)
  THEN Json(400, "Unsupported image format",
            Details("Please upload a valid JPEG, PNG, WebP, or TIFF image", <<>>))
  ELSE Json(200, "Processing failed", Details(e.message, <<>>))

\* catch (error) of the index handler (server/index.js 581-626)
IndexCatch(e) ==
  IF Includes(e.message, PatUnsupported)
  THEN Json(400, "Unsupported image format",
            Details("Please upload a valid JPEG, PNG, WebP, or TIFF image", <<>>))
  ELSE IF Includes(e.message, PatPixelLimit)
  THEN Json(400, "Image too large",
            Details("The image dimensions are too large. Try reducing the image size before uploading.", <<>>))
  ELSE IF Includes(e.message, PatMemory)
  THEN Json(500, "Out of memory",
            Details("The server ran out of memory while processing this image. Try a smaller image.", <<>>))
  ELSE Json(500, "Processing failed", Details(e.message, <<>>))

\* catch (error) of the legacy handler (server/index.js 243-280)
LegacyCatch(e) ==
  IF Includes(e.message, PatUnsupported)
  THEN Json(400, "Unsupported image format",
            Details("Please upload a valid image file", <<>>))
  ELSE IF Includes(e.message, PatPixelLimit)
  THEN Json(400, "Image too large",
            Details("The image dimensions exceed the maximum allowed size", <<>>))
  ELSE Json(500, "Processing failed", Details(e.message, <<>>))

\* catch (error) of the api handler (api/upscale.ts 77-98)
ApiCatch(e) ==
  IF Includes(e.message, PatUnsupported)
  THEN Json(400, "Unsupported image format",
            Details("Please upload a valid image file", <<>>))
  ELSE Json(500, "Processing failed", Details(e.message, <<>>))

Catch(h, e) ==
  CASE h = "index"  -> IndexCatch(e)
    [] h = "legacy" -> LegacyCatch(e)
    [] h = "api"    -> ApiCatch(e)

\* ------------------------------------------------------------------------
\* Arithmetic of the progressive-downscale step
\* ------------------------------------------------------------------------
\* floor(sqrt(n)) by bisection: the largest s in lo..hi with s * s <= n
RECURSIVE SqrtSearch(_, _, _)
SqrtSearch(n, lo, hi) ==
  IF lo >= hi THEN lo
  ELSE LET mid == (lo + hi + 1) \div 2
       IN IF mid * mid <= n THEN SqrtSearch(n, mid, hi)
          ELSE SqrtSearch(n, lo, mid - 1)

\* 46340 = floor(sqrt(2^31 - 1)) keeps mid * mid inside the integers of the checker
Isqrt(n) == SqrtSearch(n, 0, IF n < 46340 THEN n ELSE 46340)

\* ceil(a / b) for a >= 0, b > 0
CeilDiv(a, b) == (a + b - 1) \div b

\* the largest b in lo..hi with (a * 10^4 + b)^2 <= (a^2 + r) * 10^8, that is
\* 2ab + ceil(b^2 / 10^4) <= r * 10^4
RECURSIVE FracSearch(_, _, _, _)
FracSearch(a, r, lo, hi) ==
  IF lo >= hi THEN lo
  ELSE LET mid == (lo + hi + 1) \div 2
       IN IF 2 * a * mid + CeilDiv(mid * mid, 10000) <= r * 10000
          THEN FracSearch(a, r, mid, hi)
          ELSE FracSearch(a, r, lo, mid - 1)

\* floor(sqrt(MAX_SAFE_PIXELS * p)) = floor(10^4 * sqrt(p)), for p < 2^31
SqrtScaled(p) ==
  LET a == Isqrt(p)
  IN a * 10000 + FracSearch(a, p - a * a, 0, 9999)

\* Math.floor(metadata.width * Math.sqrt(MAX_SAFE_PIXELS / pixelCount)) with
\* pixelCount = width * height: the largest k with (k * height)^2 <=
\* MAX_SAFE_PIXELS * pixelCount, i.e. floor(floor(sqrt(MAX_SAFE_PIXELS * pixelCount)) / height)
IntermediateWidth(w, h) == SqrtScaled(w * h) \div h
IntermediateHeight(w, h) == SqrtScaled(w * h) \div w

\* pixelCount > MAX_SAFE_PIXELS; an absent dimension makes pixelCount NaN,
\* and NaN > MAX_SAFE_PIXELS is false (absent is modelled as 0)
Oversized(w, h) == w * h > MAX_SAFE_PIXELS

\* metadata.width > CHUNK_SIZE || metadata.height > CHUNK_SIZE
NeedsChunking(w, h) == w > CHUNK_SIZE \/ h > CHUNK_SIZE

\* ------------------------------------------------------------------------
\* The library calls, by what the handlers rely on
\* ------------------------------------------------------------------------
\* default limitInputPixels of sharp (0x3FFF * 0x3FFF), used where the code
\* passes no limitInputPixels option
SHARP_DEFAULT_PIXEL_LIMIT == 16383 * 16383

\* sharp(buffer): the constructor throws on a zero-length Buffer
SharpOpen(file) ==
  IF file.size = 0 THEN Err(MsgBufferEmpty, "") ELSE NoErr

\* await sharp(buffer).metadata(): rejects on an unrecognized container or a
\* corrupt header; otherwise resolves with width and height (0: absent)
MetadataError(image) ==
  CASE image.kind = "unsupported" -> Err(MsgUnsupported, "")
    [] image.kind = "corrupt"     -> Err(MsgCorruptHeader, "")
    [] OTHER                      -> NoErr

\* .resize(width, height, ...): each must be a positive integer, else it throws
ValidDimension(x) == ~x.nan /\ x.v > 0

\* .withMetadata({ density }): must be a positive number, else it throws
ValidDensity(x) == ~x.nan /\ x.v > 0

\* .resize(w, h, { fit: 'cover' }).withMetadata({ density }) on a pipeline
ResizeError(w, h, dpi) ==
  IF ValidDimension(w) /\ ValidDimension(h) /\ ValidDensity(dpi)
  THEN NoErr ELSE Err(MsgInvalidParam, "")

\* .resize(w, h, { fit: 'cover' }) alone (the intermediate resample)
ResizeOnlyError(w, h) ==
  IF ValidDimension(w) /\ ValidDimension(h) THEN NoErr ELSE Err(MsgInvalidParam, "")

\* fault variant of toBuffer(): the pixel limit trips whatever the image
ToBufferErrorsAnyLimit(w, h, limit) ==
  {Err(MsgPixelLimit, ""), Err(MsgMemory, ""), Err(MsgOther, "")}

\* the rejections toBuffer() can end with on an image of w x h pixels read
\* under a pixel limit (0: limitInputPixels false): the limit, or a failure of
\* the runtime (allocation, encoder)
ToBufferErrors(w, h, limit) ==
  IF limit > 0 /\ w * h > limit
  THEN {Err(MsgPixelLimit, "")}
  ELSE {Err(MsgMemory, ""), Err(MsgOther, "")}

\* toBuffer() can resolve unless the pixel limit is exceeded
ToBufferCanResolve(w, h, limit) == ~(limit > 0 /\ w * h > limit)

\* info of a fit: 'cover' resize to w x h: exactly w x h
CoverInfo(w, h) == [width |-> w.v, height |-> h.v]

\* round(a / b) for a >= 0, b > 0
RoundDiv(a, b) == (a + b \div 2) \div b

\* fit: 'cover' on a w x h image for a target of tw x th: both axes are scaled
\* by the larger of tw / w and th / h, so one edge meets the target and the
\* other is at least the target
CoverScaled(w, h, tw, th) ==
  IF tw * h >= th * w
  THEN [width |-> tw, height |-> RoundDiv(h * tw, w)]
  ELSE [width |-> RoundDiv(w * th, h), height |-> th]

\* the columns and rows of the scaled image that fit: 'cover' cuts away
CoverCropped(w, h, tw, th) ==
  [width |-> CoverScaled(w, h, tw, th).width - tw,
   height |-> CoverScaled(w, h, tw, th).height - th]

\* fault variant of multer: a fileFilter that accepts every part
MulterErrorSizeOnly(h, file) ==
  IF ~file.present THEN NoErr
  ELSE IF file.size > MAX_FILE_SIZE(h) THEN Err(MsgFileTooLarge, "LIMIT_FILE_SIZE")
  ELSE NoErr

\* multer: fileFilter runs on the part's header, limits.fileSize on its data
MulterError(h, file) ==
  IF ~file.present THEN NoErr
  ELSE IF ~StartsWithImage(file.mimetype) THEN Err(MsgOnlyImages, "")
  ELSE IF file.size > MAX_FILE_SIZE(h) THEN Err(MsgFileTooLarge, "LIMIT_FILE_SIZE")
  ELSE NoErr

\* ------------------------------------------------------------------------
\* Requests the environment can send
\* ------------------------------------------------------------------------
Chars(str) ==
  CASE str = "image/jpeg" -> <<"i", "m", "a", "g", "e", "/", "j", "p", "e", "g">>
    [] str = "image/png"  -> <<"i", "m", "a", "g", "e", "/", "p", "n", "g">>
    [] str = "image/webp" -> <<"i", "m", "a", "g", "e", "/", "w", "e", "b", "p">>
    [] str = "image/gif"  -> <<"i", "m", "a", "g", "e", "/", "g", "i", "f">>
    [] str = "text/plain" -> <<"t", "e", "x", "t", "/", "p", "l", "a", "i", "n">>
    [] str = "image"      -> <<"i", "m", "a", "g", "e">>
    [] str = "7200"       -> <<"7", "2", "0", "0">>
    [] str = "10800"      -> <<"1", "0", "8", "0", "0">>
    [] str = "10000"      -> <<"1", "0", "0", "0", "0">>
    [] str = "10001"      -> <<"1", "0", "0", "0", "1">>
    [] str = "12000"      -> <<"1", "2", "0", "0", "0">>
    [] str = "3300"       -> <<"3", "3", "0", "0">>
    [] str = "4200"       -> <<"4", "2", "0", "0">>
    [] str = "300"        -> <<"3", "0", "0">>
    [] str = "72"         -> <<"7", "2">>
    [] str = "1"          -> <<"1">>
    [] str = "0"          -> <<"0">>
    [] str = "-5"         -> <<"-", "5">>
    [] str = "abc"        -> <<"a", "b", "c">>
    [] str = "150dpi"     -> <<"1", "5", "0", "d", "p", "i">>
    [] str = ""           -> <<>>

MimeTypes == {Chars("image/jpeg"), Chars("image/png"), Chars("text/plain"), Chars("image")}

Image(kind, w, h) == [kind |-> kind, width |-> w, height |-> h]

\* decodable images, by decoded width and height (0: the decoder reports none)
OkDimensions ==
  {<<1, 1>>, <<600, 400>>, <<6000, 4000>>, <<10000, 10000>>, <<10000, 10001>>,
   <<12000, 12000>>, <<15000, 10000>>, <<20000, 6000>>, <<1, 200000000>>, <<40000, 30000>>,
   <<0, 400>>, <<600, 0>>}

Images ==
  {Image("ok", d[1], d[2]) : d \in OkDimensions}
    \cup {Image("unsupported", 0, 0), Image("corrupt", 0, 0)}

EmptyImage == Image("empty", 0, 0)

File(mimetype, size, image) ==
  [present |-> TRUE, mimetype |-> mimetype, size |-> size, image |-> image]

\* no 'image' part in the multipart body
NoFile == [present |-> FALSE, mimetype |-> <<>>, size |-> 0, image |-> EmptyImage]

\* sizes around the ceiling of handler h
BoundarySizes(h) ==
  {MAX_FILE_SIZE(h) - 1} \cup {MAX_FILE_SIZE(h) + k : k \in 0..MaxOverBytes}

\* files: every image as a small upload, a 10-byte one for the undecodable
\* ones, one image at the sizes around the ceiling, and the empty upload
Files(h) ==
  {NoFile}
    \cup {File(m, 0, EmptyImage) : m \in MimeTypes}
    \cup {File(m, 10, i) : m \in MimeTypes, i \in {Image("unsupported", 0, 0), Image("corrupt", 0, 0)}}
    \cup {File(Chars("image/jpeg"), 204800, Image("ok", d[1], d[2])) : d \in OkDimensions}
    \cup {File(m, sz, Image("ok", 600, 400)) : m \in MimeTypes, sz \in BoundarySizes(h)}

Query(w, h, dpi) == [width |-> w, height |-> h, dpi |-> dpi]

QueryValues ==
  {Absent} \cup {Str(Chars(x)) : x \in {"", "0", "-5", "abc", "1", "3300", "7200",
                                        "10000", "10001", "10800", "12000"}}

DpiValues == {Absent} \cup {Str(Chars(x)) : x \in {"", "0", "-5", "abc", "72", "300", "150dpi"}}

\* width and height vary together or against a fixed other edge; the dpi
\* varies against two fixed targets
Queries ==
  {Query(v, v, Str(Chars("300"))) : v \in QueryValues}
    \cup {Query(v, Str(Chars("4200")), Str(Chars("300"))) : v \in QueryValues}
    \cup {Query(Str(Chars("3300")), v, Str(Chars("300"))) : v \in QueryValues}
    \cup {Query(Str(Chars("7200")), Str(Chars("10800")), d) : d \in DpiValues}
    \cup {Query(Absent, Absent, d) : d \in DpiValues}

Methods == {"POST", "GET"}

\* ------------------------------------------------------------------------
\* The client: src/types.ts, src/services/imageService.ts, src/App.tsx
\* ------------------------------------------------------------------------
\* const MAX_FILE_SIZE = 10 * 1024 * 1024 (imageService.ts)
CLIENT_MAX_FILE_SIZE == 10 * MB

\* 'Maximum file size: 25MB' (App.tsx footer, FAQ.tsx)
ADVERTISED_MAX_FILE_SIZE == 25 * MB

\* img.width < 100 and img.width > 8000 of validateImageDimensions
MIN_IMAGE_EDGE == 100
MAX_IMAGE_EDGE == 8000

\* const allowedTypes of validateImageFormat
AllowedTypes == {Chars("image/jpeg"), Chars("image/png"), Chars("image/webp")}

\* a PrintDimension; width and height are in hundredths of an inch
Dimension(id, width, height, dpi) ==
  [id |-> id, width |-> width, height |-> height, dpi |-> dpi]

PRINT_DIMENSIONS ==
  <<Dimension("24x36", 2400, 3600, 300), Dimension("24x32", 2400, 3200, 300),
    Dimension("24x30", 2400, 3000, 300), Dimension("11x14", 1100, 1400, 300),
    Dimension("a1", 2339, 3311, 300)>>

DigitChar(d) ==
  CASE d = 0 -> "0" [] d = 1 -> "1" [] d = 2 -> "2" [] d = 3 -> "3"
    [] d = 4 -> "4" [] d = 5 -> "5" [] d = 6 -> "6" [] d = 7 -> "7"
    [] d = 8 -> "8" [] d = 9 -> "9"

\* the decimal digits of n >= 0, as in `${n}` and n.toFixed(0)
RECURSIVE ToChars(_)
ToChars(n) ==
  IF n < 10 THEN <<DigitChar(n)>>
  ELSE Append(ToChars(n \div 10), DigitChar(n % 10))

\* inches * dpi rounded to the nearest integer
Pixels(inches, dpi) == RoundDiv(inches * dpi, 100)

\* Math.round(dimension.width * dimension.dpi)
TargetWidth(d) == Pixels(d.width, d.dpi)
TargetHeight(d) == Pixels(d.height, d.dpi)

\* (dimension.width * dimension.dpi).toFixed(0) on the selector card
CardWidth(d) == ToChars(Pixels(d.width, d.dpi))
CardHeight(d) == ToChars(Pixels(d.height, d.dpi))

\* `/upscale?width=${targetWidth}&height=${targetHeight}&dpi=${dimension.dpi}`
UpscaleQuery(d) ==
  Query(Str(ToChars(TargetWidth(d))), Str(ToChars(TargetHeight(d))),
        Str(ToChars(d.dpi)))

\* parseInt(response.headers['x-image-width'] || '0', 10) of a header the
\* server set from a number
HeaderNumber(x) == ParseIntChars(ToChars(x.v))

MsgFormat == "Unsupported image format. Please use JPG, PNG, or WebP images."
MsgSizeLimit == "File size exceeds ${}MB limit."
MsgEmptyFile == "File appears to be empty."
MsgTooSmall == "Image dimensions too small. Minimum size is 100x100 pixels."
MsgTooLarge == "Image dimensions too large. Maximum size is 8000x8000 pixels."
MsgLoadFailed == "Failed to load image. Please ensure it's a valid image file."
MsgNotReady == "Processing server is not ready"
MsgConnection == "Server connection error: Network Error"
MsgProcessingFailed == "Processing failed"
MsgFailedToProcess == "Failed to process image"
MsgDropInvalid == "Please drop a valid image file."

\* validateImageFormat: the message it throws (NoDetails: none)
ValidateImageFormat(file) ==
  IF file.mimetype \in AllowedTypes THEN NoDetails ELSE Details(MsgFormat, <<>>)

\* validateImageSize
ValidateImageSize(file) ==
  IF file.size > CLIENT_MAX_FILE_SIZE
  THEN Details(MsgSizeLimit, <<CLIENT_MAX_FILE_SIZE \div MB>>)
  ELSE IF file.size = 0 THEN Details(MsgEmptyFile, <<>>)
  ELSE NoDetails

\* validateImageDimensions: img.onerror, or img.onload where the first
\* reject settles the promise
ValidateImageDimensions(file) ==
  IF file.image.kind # "ok" THEN Details(MsgLoadFailed, <<>>)
  ELSE IF file.image.width < MIN_IMAGE_EDGE \/ file.image.height < MIN_IMAGE_EDGE
  THEN Details(MsgTooSmall, <<>>)
  ELSE IF file.image.width > MAX_IMAGE_EDGE \/ file.image.height > MAX_IMAGE_EDGE
  THEN Details(MsgTooLarge, <<>>)
  ELSE NoDetails

\* validateImage: format, then size, then dimensions
ValidateImage(file) ==
  IF ValidateImageFormat(file) # NoDetails THEN ValidateImageFormat(file)
  ELSE IF ValidateImageSize(file) # NoDetails THEN ValidateImageSize(file)
  ELSE ValidateImageDimensions(file)

\* what GET /health can come back with: status 'ok', another body, no answer
HealthAnswers == {"ok", "starting", "unreachable"}

\* fault variant of checkServerHealth: any answer that arrives is accepted
HealthErrorAnyBody(answer) ==
  IF answer = "unreachable" THEN Details(MsgConnection, <<>>) ELSE NoDetails

\* checkServerHealth: the message of the Error it throws (NoDetails: none)
HealthError(answer) ==
  CASE answer = "ok"          -> NoDetails
    [] answer = "unreachable" -> Details(MsgConnection, <<>>)
    [] OTHER                  -> Details(MsgNotReady, <<>>)

\* a thrown value: an Error instance or a plain object, and its message
Thrown(isError, message) == [thrown |-> TRUE, isError |-> isError, message |-> message]
NoThrow == [thrown |-> FALSE, isError |-> FALSE, message |-> NoDetails]

\* files the user can choose: a valid JPEG, a WebP of the advertised maximum
\* size, a GIF, an empty file, images with edges over 8000 and under 100, and
\* a file the browser cannot decode
ClientFiles ==
  {File(Chars("image/jpeg"), 204800, Image("ok", 600, 400)),
   File(Chars("image/webp"), ADVERTISED_MAX_FILE_SIZE, Image("ok", 600, 400)),
   File(Chars("image/gif"), 204800, Image("ok", 600, 400)),
   File(Chars("image/jpeg"), 0, EmptyImage),
   File(Chars("image/png"), 204800, Image("ok", 9000, 9000)),
   File(Chars("image/png"), 204800, Image("ok", 50, 50)),
   File(Chars("image/jpeg"), 10, Image("corrupt", 0, 0))}

\* files the user can drop: the same, and one that is not an image
DroppedFiles ==
  ClientFiles \cup {File(Chars("text/plain"), 10, Image("unsupported", 0, 0))}

\* the useState values of App
InitApp ==
  [file |-> NoFile, preview |-> FALSE, selectedDimensions |-> <<>>,
   processedImages |-> <<>>, isProcessing |-> FALSE, error |-> NoDetails]

\* one invocation of handleUpscale: the closure's file and selectedDimensions,
\* the loop position, and the current uploadAndProcessImage call
IdleCall ==
  [pc |-> "idle", file |-> NoFile, dimensions |-> <<>>,
   i |-> 0,                     \* position of the loop in dimensions
   results |-> <<>>,            \* newProcessedImages
   validated |-> FALSE,         \* validateImage of the current call resolved
   health |-> "none",           \* what GET /health came back with in this call
   posted |-> FALSE,            \* the current call has sent its POST
   posts |-> <<>>,              \* ids of the dimensions POSTed by this batch
   thrown |-> NoThrow,          \* what uploadAndProcessImage threw
   reset |-> FALSE]             \* history: handleReset ran during this batch

BatchIds == {1}

InitCalls == [b \in BatchIds |-> IdleCall]

\* ------------------------------------------------------------------------
\* State: one record per request in flight
\* ------------------------------------------------------------------------
NoOptions == [width |-> NaN, height |-> NaN, dpi |-> NaN]
NoSize == [width |-> 0, height |-> 0]
NoResize == [called |-> FALSE, width |-> NaN, height |-> NaN]

IdleRequest ==
  [pc |-> "idle", handler |-> "index", method |-> "POST", file |-> NoFile,
   query |-> Query(Absent, Absent, Absent),
   options |-> NoOptions,       \* { width, height, dpi } given to the pipeline
   metadata |-> NoSize,         \* decoded width and height
   path |-> "none",             \* "direct", "oversized" or "chunked"
   intermediate |-> NoSize,     \* size of the intermediate buffer
   cropped |-> NoSize,          \* columns and rows the intermediate resample cut
   resize |-> NoResize,         \* arguments of the final .resize(width, height)
   decodes |-> 0,               \* times the buffer was handed to sharp(...)
   resamples |-> 0,             \* resamples started
   thrown |-> NoErr,            \* the error the handler's catch received
   met |-> 0,                   \* other requests in flight when this one arrived
   res |-> NoResponse, sent |-> 0]

RequestIds == {1}

Init ==
  /\ reqs = [r \in RequestIds |-> IdleRequest]
  /\ app = InitApp
  /\ calls = InitCalls

\* the handler of the request has started and has not answered
InFlight(q) == q.pc \notin {"idle", "done"}

\* a request arrives at one of the handlers
Arrive(r) ==
  /\ reqs[r].pc = "idle"
  /\ \E h \in Handlers, q \in Queries :
       \E f \in Files(h), m \in (IF h = "api" THEN Methods ELSE {"POST"}) :
         reqs' = [reqs EXCEPT ![r] =
                    [IdleRequest EXCEPT !.pc = "received", !.handler = h,
                                        !.method = m, !.file = f, !.query = q]]

\* the response is sent: the request ends
Respond(r, now, response) ==
  reqs' = [reqs EXCEPT ![r] = [now EXCEPT !.res = response, !.sent = @ + 1,
                                          !.pc = "done"]]

\* an error reaches the catch of the handler, which answers it
Throw(r, now, e) ==
  Respond(r, [now EXCEPT !.thrown = e], Catch(now.handler, e))

\* fault variant of the suspension: the options live in a module-level
\* variable that every request in flight reads
AwaitSharedOptions(r, now, pc) ==
  reqs' = [o \in DOMAIN reqs |->
             IF o = r THEN [now EXCEPT !.pc = pc]
             ELSE IF InFlight(reqs[o]) THEN [reqs[o] EXCEPT !.options = now.options]
             ELSE reqs[o]]

\* the handler suspends at an await
Await(r, now, pc) == reqs' = [reqs EXCEPT ![r] = [now EXCEPT !.pc = pc]]

\* ------------------------------------------------------------------------
\* "index": server/index.js, lines 405-628
\* ------------------------------------------------------------------------
\* Math.min(10000, parseInt(req.query.width, 10) || 7200)
IndexEdge(q, dflt) == MathMin(Num(MAX_EDGE), OrDefault(ParseInt(q), dflt))

\* fault variant of the dpi parameter: the default whatever the query
IndexDpiDefault(q) == Num(DEFAULT_DPI)

\* parseInt(req.query.dpi, 10) || 300
IndexDpi(q) == OrDefault(ParseInt(q), DEFAULT_DPI)

IndexOptions(query) ==
  [width |-> IndexEdge(query.width, DEFAULT_WIDTH),
   height |-> IndexEdge(query.height, DEFAULT_HEIGHT),
   dpi |-> IndexDpi(query.dpi)]

\* if (err) { ... } of the upload callback
IndexUploadError(e) ==
  IF e.code = "LIMIT_FILE_SIZE"
  THEN Json(400, "File too large",
            Details("Maximum file size is ${}MB", <<MAX_FILE_SIZE("index") \div MB>>))
  ELSE Json(400, "Upload failed", Details(e.message, <<>>))

\* multer, the checks of the callback, the parameters, and
\* processImageInChunks up to await metadataPipeline.metadata()
IndexUpload(r) ==
  LET q == reqs[r]
      e == MulterError("index", q.file)
      withOptions == [q EXCEPT !.options = IndexOptions(q.query)]
      opened == [withOptions EXCEPT !.decodes = @ + 1]
  IN /\ q.pc = "received" /\ q.handler = "index"
     /\ IF e # NoErr THEN Respond(r, q, IndexUploadError(e))
        ELSE IF ~q.file.present
        THEN Respond(r, q, Json(400, "No file uploaded",
                                Details("Please select an image file", <<>>)))
        ELSE IF SharpOpen(q.file) # NoErr
        THEN Throw(r, opened, SharpOpen(q.file))
        ELSE Await(r, opened, "awaitMetadata")

\* metadata() settles; the image is classified and the first resample starts
IndexMetadataDone(r) ==
  LET q == reqs[r]
      image == q.file.image
      e == MetadataError(image)
      w == image.width
      h == image.height
      decoded == [q EXCEPT !.metadata = [width |-> w, height |-> h]]
      iw == IntermediateWidth(w, h)
      ih == IntermediateHeight(w, h)
      over == [decoded EXCEPT !.path = "oversized", !.decodes = @ + 1,
                              !.intermediate = [width |-> iw, height |-> ih]]
      direct == [decoded EXCEPT !.path = "direct", !.decodes = @ + 1,
                                !.resize = [called |-> TRUE, width |-> q.options.width,
                                            height |-> q.options.height]]
  IN /\ q.pc = "awaitMetadata" /\ q.handler = "index"
     /\ IF e # NoErr THEN Throw(r, q, e)
        ELSE IF Oversized(w, h)
        THEN IF ResizeOnlyError(Num(iw), Num(ih)) # NoErr
             THEN Throw(r, over, ResizeOnlyError(Num(iw), Num(ih)))
             ELSE Await(r, [over EXCEPT !.resamples = @ + 1,
                                        !.cropped = CoverCropped(w, h, iw, ih)],
                        "awaitIntermediate")
        ELSE IF ResizeError(q.options.width, q.options.height, q.options.dpi) # NoErr
             THEN Throw(r, direct, ResizeError(q.options.width, q.options.height,
                                               q.options.dpi))
             ELSE Await(r, [direct EXCEPT !.resamples = @ + 1], "awaitFinal")

\* the intermediate toBuffer() settles; the final resample starts on its result
IndexIntermediateDone(r) ==
  LET q == reqs[r]
      image == q.file.image
      final == [q EXCEPT !.decodes = @ + 1,
                         !.resize = [called |-> TRUE, width |-> q.options.width,
                                     height |-> q.options.height]]
      invalid == ResizeError(q.options.width, q.options.height, q.options.dpi)
  IN /\ q.pc = "awaitIntermediate" /\ q.handler = "index"
     /\ \/ \E e \in ToBufferErrors(image.width, image.height, 0) :
             Throw(r, q, e)
        \/ IF invalid # NoErr THEN Throw(r, final, invalid)
           ELSE Await(r, [final EXCEPT !.resamples = @ + 1], "awaitFinal")

\* the pixels the final resample reads, and the limit it reads them under
IndexFinalInput(q) ==
  IF q.path = "oversized"
  THEN [width |-> q.intermediate.width, height |-> q.intermediate.height,
        limit |-> SHARP_DEFAULT_PIXEL_LIMIT]
  ELSE [width |-> q.file.image.width, height |-> q.file.image.height, limit |-> 0]

\* the final toBuffer({ resolveWithObject: true }) settles: res.send or catch
IndexFinalDone(r) ==
  LET q == reqs[r]
      in == IndexFinalInput(q)
  IN /\ q.pc = "awaitFinal" /\ q.handler = "index"
     /\ \/ \E e \in ToBufferErrors(in.width, in.height, in.limit) :
             Throw(r, q, e)
        \/ /\ ToBufferCanResolve(in.width, in.height, in.limit)
           /\ Respond(r, q, ImageResponse(CoverInfo(q.resize.width, q.resize.height),
                                          q.options.dpi))

\* ------------------------------------------------------------------------
\* "legacy": server/index.js, lines 79-282
\* ------------------------------------------------------------------------
\* parseInt(req.query.width || '7200', 10), with no cap
LegacyOptions(query) ==
  [width |-> ParseIntOrString(query.width, Chars("7200")),
   height |-> ParseIntOrString(query.height, Chars("10800")),
   dpi |-> ParseIntOrString(query.dpi, Chars("300"))]

\* if (err) { ... } of the upload callback: multer's own message
LegacyUploadError(e) == Json(400, "Upload failed", Details(e.message, <<>>))

\* multer, the checks of the callback, the parameters, the buffer check, up
\* to await sharp(req.file.buffer).metadata()
LegacyUpload(r) ==
  LET q == reqs[r]
      e == MulterError("legacy", q.file)
      withOptions == [q EXCEPT !.options = LegacyOptions(q.query)]
  IN /\ q.pc = "received" /\ q.handler = "legacy"
     /\ IF e # NoErr THEN Respond(r, q, LegacyUploadError(e))
        ELSE IF ~q.file.present
        THEN Respond(r, q, Json(400, "No image provided",
                                Details("Please select an image to upload", <<>>)))
        ELSE IF q.file.size = 0
        THEN Throw(r, withOptions, Err(MsgInvalidBuffer, ""))
        ELSE Await(r, [withOptions EXCEPT !.decodes = @ + 1], "awaitMetaCheck")

\* the handler's metadata() settles: the dimension check, then
\* processImageInChunks up to await pipeline.metadata()
LegacyMetaCheckDone(r) ==
  LET q == reqs[r]
      image == q.file.image
      e == MetadataError(image)
  IN /\ q.pc = "awaitMetaCheck" /\ q.handler = "legacy"
     /\ IF e # NoErr THEN Throw(r, q, e)
        ELSE IF image.width = 0 \/ image.height = 0
        THEN Throw(r, q, Err(MsgInvalidDimensions, ""))
        ELSE Await(r, [q EXCEPT !.decodes = @ + 1,
                                !.metadata = [width |-> image.width,
                                              height |-> image.height]],
                   "awaitMetadata")

\* pipeline.metadata() settles: direct resize, or the extraction of the chunks
LegacyMetadataDone(r) ==
  LET q == reqs[r]
      direct == [q EXCEPT !.path = "direct",
                          !.resize = [called |-> TRUE, width |-> q.options.width,
                                      height |-> q.options.height]]
      invalid == ResizeError(q.options.width, q.options.height, q.options.dpi)
  IN /\ q.pc = "awaitMetadata" /\ q.handler = "legacy"
     /\ IF NeedsChunking(q.metadata.width, q.metadata.height)
        THEN Await(r, [q EXCEPT !.path = "chunked"], "awaitChunks")
        ELSE IF invalid # NoErr THEN Throw(r, direct, invalid)
             ELSE Await(r, [direct EXCEPT !.resamples = @ + 1], "awaitFinal")

\* the extract().toBuffer() loop settles; the composite is resized
LegacyChunksDone(r) ==
  LET q == reqs[r]
      final == [q EXCEPT !.resize = [called |-> TRUE, width |-> q.options.width,
                                     height |-> q.options.height]]
      invalid == ResizeError(q.options.width, q.options.height, q.options.dpi)
  IN /\ q.pc = "awaitChunks" /\ q.handler = "legacy"
     /\ \/ \E e \in ToBufferErrors(q.metadata.width, q.metadata.height,
                                  LEGACY_PIXEL_LIMIT) :
             Throw(r, q, e)
        \/ /\ ToBufferCanResolve(q.metadata.width, q.metadata.height, LEGACY_PIXEL_LIMIT)
           /\ IF invalid # NoErr THEN Throw(r, final, invalid)
              ELSE Await(r, [final EXCEPT !.resamples = @ + 1], "awaitFinal")

\* the final toBuffer({ resolveWithObject: true }) settles: res.send or catch
LegacyFinalDone(r) ==
  LET q == reqs[r]
      limit == IF q.path = "chunked" THEN SHARP_DEFAULT_PIXEL_LIMIT ELSE LEGACY_PIXEL_LIMIT
  IN /\ q.pc = "awaitFinal" /\ q.handler = "legacy"
     /\ \/ \E e \in ToBufferErrors(q.metadata.width, q.metadata.height, limit) :
             Throw(r, q, e)
        \/ /\ ToBufferCanResolve(q.metadata.width, q.metadata.height, limit)
           /\ Respond(r, q, ImageResponse(CoverInfo(q.resize.width, q.resize.height),
                                          q.options.dpi))

\* ------------------------------------------------------------------------
\* "api": api/upscale.ts, lines 26-99
\* ------------------------------------------------------------------------
\* the method check, await runMiddleware, the file check, the parameters, up
\* to await sharp(file.buffer).metadata()
ApiUpload(r) ==
  LET q == reqs[r]
      e == MulterError("api", q.file)
      withOptions == [q EXCEPT !.options = LegacyOptions(q.query)]
      opened == [withOptions EXCEPT !.decodes = @ + 1]
  IN /\ q.pc = "received" /\ q.handler = "api"
     /\ IF q.method # "POST"
        THEN Respond(r, q, Json(405, "Method not allowed", NoDetails))
        ELSE IF e # NoErr THEN Throw(r, q, e)
        ELSE IF ~q.file.present
        THEN Respond(r, q, Json(400, "No image provided",
                                Details("Please select an image to upload", <<>>)))
        ELSE IF SharpOpen(q.file) # NoErr
        THEN Throw(r, opened, SharpOpen(q.file))
        ELSE Await(r, opened, "awaitMetaCheck")

\* metadata() settles: the dimension check, then the resize pipeline is built
ApiMetaCheckDone(r) ==
  LET q == reqs[r]
      image == q.file.image
      e == MetadataError(image)
      direct == [q EXCEPT !.path = "direct", !.decodes = @ + 1,
                          !.metadata = [width |-> image.width, height |-> image.height],
                          !.resize = [called |-> TRUE, width |-> q.options.width,
                                      height |-> q.options.height]]
      invalid == ResizeError(q.options.width, q.options.height, q.options.dpi)
  IN /\ q.pc = "awaitMetaCheck" /\ q.handler = "api"
     /\ IF e # NoErr THEN Throw(r, q, e)
        ELSE IF image.width = 0 \/ image.height = 0
        THEN Throw(r, q, Err(MsgInvalidDimensions, ""))
        ELSE IF invalid # NoErr THEN Throw(r, direct, invalid)
        ELSE Await(r, [direct EXCEPT !.resamples = @ + 1], "awaitFinal")

\* toBuffer({ resolveWithObject: true }) settles: res.send or catch
ApiFinalDone(r) ==
  LET q == reqs[r]
  IN /\ q.pc = "awaitFinal" /\ q.handler = "api"
     /\ \/ \E e \in ToBufferErrors(q.metadata.width, q.metadata.height,
                                  SHARP_DEFAULT_PIXEL_LIMIT) :
             Throw(r, q, e)
        \/ /\ ToBufferCanResolve(q.metadata.width, q.metadata.height,
                                 SHARP_DEFAULT_PIXEL_LIMIT)
           /\ Respond(r, q, ImageResponse(CoverInfo(q.resize.width, q.resize.height),
                                          q.options.dpi))

\* the connection closes; the slot takes the next request
Release(r) ==
  /\ reqs[r].pc = "done"
  /\ reqs' = [reqs EXCEPT ![r] = IdleRequest]

Next ==
  \/ \E r \in DOMAIN reqs : Arrive(r) /\ UNCHANGED client
  \/ \E r \in DOMAIN reqs : IndexUpload(r) /\ UNCHANGED client
  \/ \E r \in DOMAIN reqs : IndexMetadataDone(r) /\ UNCHANGED client
  \/ \E r \in DOMAIN reqs : IndexIntermediateDone(r) /\ UNCHANGED client
  \/ \E r \in DOMAIN reqs : IndexFinalDone(r) /\ UNCHANGED client
  \/ \E r \in DOMAIN reqs : LegacyUpload(r) /\ UNCHANGED client
  \/ \E r \in DOMAIN reqs : LegacyMetaCheckDone(r) /\ UNCHANGED client
  \/ \E r \in DOMAIN reqs : LegacyMetadataDone(r) /\ UNCHANGED client
  \/ \E r \in DOMAIN reqs : LegacyChunksDone(r) /\ UNCHANGED client
  \/ \E r \in DOMAIN reqs : LegacyFinalDone(r) /\ UNCHANGED client
  \/ \E r \in DOMAIN reqs : ApiUpload(r) /\ UNCHANGED client
  \/ \E r \in DOMAIN reqs : ApiMetaCheckDone(r) /\ UNCHANGED client
  \/ \E r \in DOMAIN reqs : ApiFinalDone(r) /\ UNCHANGED client
  \/ \E r \in DOMAIN reqs : Release(r) /\ UNCHANGED client

Spec == Init /\ [][Next]_vars

\* ------------------------------------------------------------------------
\* Several requests in flight at the index handler
\* ------------------------------------------------------------------------
PairIds == {1, 2}

\* a small and an oversized image, an undecodable one, an empty upload and a
\* part that is not an image
PairFiles ==
  {File(Chars("image/jpeg"), 204800, Image("ok", 600, 400)),
   File(Chars("image/jpeg"), 204800, Image("ok", 15000, 10000)),
   File(Chars("image/png"), 10, Image("unsupported", 0, 0)),
   File(Chars("image/jpeg"), 0, EmptyImage),
   File(Chars("text/plain"), 10, Image("unsupported", 0, 0))}

\* one target under several dpi values, the advertised target, and no target
PairQueries ==
  {Query(Str(Chars("3300")), Str(Chars("4200")), d) :
     d \in {Absent} \cup {Str(Chars(x)) : x \in {"72", "300", "0", "-5"}}}
    \cup {Query(Str(Chars("7200")), Str(Chars("10800")), Str(Chars("300"))),
          Query(Absent, Absent, Absent)}

\* a request arrives at the index handler while others may be in flight
ArrivePair(r) ==
  /\ reqs[r].pc = "idle"
  /\ \E f \in PairFiles, q \in PairQueries :
       reqs' = [reqs EXCEPT ![r] =
                  [IdleRequest EXCEPT
                     !.pc = "received", !.handler = "index", !.file = f, !.query = q,
                     !.met = Cardinality({o \in DOMAIN reqs \ {r} : InFlight(reqs[o])})]]

InitPair ==
  /\ reqs = [r \in PairIds |-> IdleRequest]
  /\ app = InitApp
  /\ calls = InitCalls

NextPair ==
  \/ \E r \in DOMAIN reqs : ArrivePair(r) /\ UNCHANGED client
  \/ \E r \in DOMAIN reqs : IndexUpload(r) /\ UNCHANGED client
  \/ \E r \in DOMAIN reqs : IndexMetadataDone(r) /\ UNCHANGED client
  \/ \E r \in DOMAIN reqs : IndexIntermediateDone(r) /\ UNCHANGED client
  \/ \E r \in DOMAIN reqs : IndexFinalDone(r) /\ UNCHANGED client
  \/ \E r \in DOMAIN reqs : Release(r) /\ UNCHANGED client

SpecPair == InitPair /\ [][NextPair]_vars

\* ------------------------------------------------------------------------
\* The client against the index handler
\* ------------------------------------------------------------------------
Range(s) == {s[k] : k \in DOMAIN s}

IsSelected(d) == \E k \in DOMAIN app.selectedDimensions : app.selectedDimensions[k].id = d.id

\* handleFileInput: the chosen file becomes the file of the App; the
\* FileReader's onload, which sets the preview, is taken to have run
HandleFileInput(f) ==
  /\ ~app.preview
  /\ app' = [app EXCEPT !.file = f, !.preview = TRUE, !.processedImages = <<>>,
                        !.error = NoDetails]
  /\ UNCHANGED <<reqs, calls>>

\* handleDrop: as handleFileInput for a file of an image/ type, else the error
HandleDrop(f) ==
  /\ ~app.preview
  /\ IF StartsWithImage(f.mimetype)
     THEN app' = [app EXCEPT !.file = f, !.preview = TRUE, !.processedImages = <<>>,
                             !.error = NoDetails]
     ELSE app' = [app EXCEPT !.error = Details(MsgDropInvalid, <<>>)]
  /\ UNCHANGED <<reqs, calls>>

\* toggleDimension of the selector, shown once there is a preview
ToggleDimension(d) ==
  /\ app.preview
  /\ IF IsSelected(d)
     THEN /\ Len(app.selectedDimensions) <= MaxSelected
          /\ app' = [app EXCEPT !.selectedDimensions =
                                  SelectSeq(@, LAMBDA x : x.id # d.id)]
     ELSE /\ Len(app.selectedDimensions) < MaxSelected
          /\ app' = [app EXCEPT !.selectedDimensions = Append(@, d)]
  /\ UNCHANGED <<reqs, calls>>

\* selectAll of the selector
SelectAll ==
  /\ app.preview
  /\ app' = [app EXCEPT !.selectedDimensions = PRINT_DIMENSIONS]
  /\ UNCHANGED <<reqs, calls>>

\* clearAll of the selector
ClearAll ==
  /\ app.preview
  /\ app' = [app EXCEPT !.selectedDimensions = <<>>]
  /\ UNCHANGED <<reqs, calls>>

\* a handleUpscale invocation that has not reached its finally block
Running(c) == c.pc \notin {"idle", "done"}

\* handleReset, behind 'Upload New Image' and 'Process Another Image': the
\* state of the App is cleared, a running handleUpscale is left to run (the
\* history field of its record notes the reset)
HandleReset ==
  /\ app.preview
  /\ app' = InitApp
  /\ calls' = [b \in DOMAIN calls |->
                 IF Running(calls[b]) THEN [calls[b] EXCEPT !.reset = TRUE]
                 ELSE calls[b]]
  /\ UNCHANGED reqs

\* handleUpscale behind 'Start Upscaling' (rendered when nothing is processed
\* yet, !isProcessing and a dimension is selected), up to the first await; the
\* invocation takes the first record that is not in use
HandleUpscale(b) ==
  /\ app.preview /\ ~app.isProcessing
  /\ Len(app.selectedDimensions) > 0 /\ Len(app.processedImages) = 0
  /\ ~Running(calls[b])
  /\ \A o \in DOMAIN calls : o < b => Running(calls[o])
  /\ IF ~app.file.present
     THEN UNCHANGED <<app, calls>>
     ELSE /\ app' = [app EXCEPT !.isProcessing = TRUE, !.error = NoDetails]
          /\ calls' = [calls EXCEPT ![b] =
                         [IdleCall EXCEPT !.pc = "validate", !.file = app.file,
                                          !.dimensions = app.selectedDimensions,
                                          !.i = 1]]
  /\ UNCHANGED reqs

\* fault variant of the failure path: the loop goes on with the next
\* dimension
FailAndGoOn(b, now, t) ==
  /\ app' = [app EXCEPT !.error = IF t.isError THEN t.message
                                  ELSE Details(MsgFailedToProcess, <<>>),
                        !.isProcessing = now.i >= Len(now.dimensions)]
  /\ calls' = [calls EXCEPT ![b] =
                 IF now.i >= Len(now.dimensions)
                 THEN [now EXCEPT !.pc = "done", !.thrown = t]
                 ELSE [now EXCEPT !.pc = "validate", !.thrown = t, !.i = @ + 1,
                                  !.validated = FALSE, !.health = "none",
                                  !.posted = FALSE]]

\* uploadAndProcessImage throws t: catch and finally of handleUpscale
Fail(b, now, t) ==
  /\ app' = [app EXCEPT !.error = IF t.isError THEN t.message
                                  ELSE Details(MsgFailedToProcess, <<>>),
                        !.isProcessing = FALSE]
  /\ calls' = [calls EXCEPT ![b] = [now EXCEPT !.pc = "done", !.thrown = t]]

\* await validateImage(file) settles; GET /health is sent
ClientValidateDone(b) ==
  LET c == calls[b]
      e == ValidateImage(c.file)
  IN /\ c.pc = "validate"
     /\ IF e # NoDetails THEN Fail(b, c, Thrown(FALSE, e))
        ELSE /\ calls' = [calls EXCEPT ![b] = [c EXCEPT !.validated = TRUE,
                                                        !.pc = "health"]]
             /\ UNCHANGED app
     /\ UNCHANGED reqs

\* await checkServerHealth() settles; on 'ok' the POST is sent
ClientHealthDone(b) ==
  LET c == calls[b]
      d == c.dimensions[c.i]
  IN /\ c.pc = "health"
     /\ \E a \in HealthAnswers :
          LET asked == [c EXCEPT !.health = a]
          IN IF HealthError(a) # NoDetails
             THEN Fail(b, asked, Thrown(FALSE, HealthError(a))) /\ UNCHANGED reqs
             ELSE /\ reqs[b].pc = "idle"
                  /\ reqs' = [reqs EXCEPT ![b] =
                                [IdleRequest EXCEPT !.pc = "received",
                                                    !.handler = "index",
                                                    !.file = c.file,
                                                    !.query = UpscaleQuery(d)]]
                  /\ calls' = [calls EXCEPT ![b] =
                                 [asked EXCEPT !.pc = "posting", !.posted = TRUE,
                                               !.posts = Append(@, d.id)]]
                  /\ UNCHANGED app

\* the connection breaks before the handler runs: an AxiosError without a
\* response, for which handleErrorResponse throws its last Error
ClientPostRefused(b) ==
  LET c == calls[b]
  IN /\ c.pc = "posting" /\ reqs[b].pc = "received"
     /\ reqs' = [reqs EXCEPT ![b] = IdleRequest]
     /\ Fail(b, c, Thrown(TRUE, Details(MsgFailedToProcess, <<>>)))

\* fault variant of the loop: every result is published as soon as it is there
ClientPostDoneEach(b) ==
  LET c == calls[b]
      res == reqs[b].res
      result == [dimension |-> c.dimensions[c.i],
                 width |-> HeaderNumber(res.width),
                 height |-> HeaderNumber(res.height)]
      results == Append(c.results, result)
  IN /\ c.pc = "posting" /\ reqs[b].pc = "done"
     /\ reqs' = [reqs EXCEPT ![b] = IdleRequest]
     /\ IF res.status # 200
        THEN Fail(b, c, Thrown(TRUE, Details(MsgProcessingFailed, <<>>)))
        ELSE IF c.i < Len(c.dimensions)
        THEN /\ calls' = [calls EXCEPT ![b] =
                            [c EXCEPT !.pc = "validate", !.i = @ + 1,
                                      !.results = results, !.validated = FALSE,
                                      !.health = "none", !.posted = FALSE]]
             /\ app' = [app EXCEPT !.processedImages = results]
        ELSE /\ calls' = [calls EXCEPT ![b] = [c EXCEPT !.pc = "done",
                                                        !.results = results]]
             /\ app' = [app EXCEPT !.processedImages = results,
                                   !.isProcessing = FALSE]

\* await axios.post(...) settles with the server's response: the loop goes
\* on, ends with setProcessedImages, or the call throws. A status other than
\* 200 is an AxiosError with a Blob body, for which handleErrorResponse
\* throws Error('Processing failed') from its inner catch.
ClientPostDone(b) ==
  LET c == calls[b]
      res == reqs[b].res
      result == [dimension |-> c.dimensions[c.i],
                 width |-> HeaderNumber(res.width),
                 height |-> HeaderNumber(res.height)]
      results == Append(c.results, result)
  IN /\ c.pc = "posting" /\ reqs[b].pc = "done"
     /\ reqs' = [reqs EXCEPT ![b] = IdleRequest]
     /\ IF res.status # 200
        THEN Fail(b, c, Thrown(TRUE, Details(MsgProcessingFailed, <<>>)))
        ELSE IF c.i < Len(c.dimensions)
        THEN /\ calls' = [calls EXCEPT ![b] =
                            [c EXCEPT !.pc = "validate", !.i = @ + 1,
                                      !.results = results, !.validated = FALSE,
                                      !.health = "none", !.posted = FALSE]]
             /\ UNCHANGED app
        ELSE /\ calls' = [calls EXCEPT ![b] = [c EXCEPT !.pc = "done",
                                                        !.results = results]]
             /\ app' = [app EXCEPT !.processedImages = results,
                                   !.isProcessing = FALSE]

InitClient ==
  /\ reqs = [b \in BatchIds |-> IdleRequest]
  /\ app = InitApp
  /\ calls = InitCalls

\* (no file that passes validateImage has more than 8000 x 8000 pixels, so the
\* intermediate resample of the oversized path never runs for this client)
NextClient ==
  \/ \E f \in ClientFiles : HandleFileInput(f)
  \/ \E f \in DroppedFiles : HandleDrop(f)
  \/ \E d \in Range(PRINT_DIMENSIONS) : ToggleDimension(d)
  \/ SelectAll
  \/ ClearAll
  \/ HandleReset
  \/ \E b \in BatchIds : HandleUpscale(b)
  \/ \E b \in BatchIds : ClientValidateDone(b)
  \/ \E b \in BatchIds : ClientHealthDone(b)
  \/ \E b \in BatchIds : ClientPostRefused(b)
  \/ \E b \in BatchIds : ClientPostDone(b)
  \/ \E r \in DOMAIN reqs : IndexUpload(r) /\ UNCHANGED client
  \/ \E r \in DOMAIN reqs : IndexMetadataDone(r) /\ UNCHANGED client
  \/ \E r \in DOMAIN reqs : IndexFinalDone(r) /\ UNCHANGED client

SpecClient == InitClient /\ [][NextClient]_vars

\* ------------------------------------------------------------------------
\* The client with room for two handleUpscale invocations at a time
\* ------------------------------------------------------------------------
OverlapIds == {1, 2}

\* one file that passes validateImage and one that does not
OverlapFiles ==
  {File(Chars("image/jpeg"), 204800, Image("ok", 600, 400)),
   File(Chars("image/png"), 204800, Image("ok", 50, 50))}

InitOverlap ==
  /\ reqs = [b \in OverlapIds |-> IdleRequest]
  /\ app = InitApp
  /\ calls = [b \in OverlapIds |-> IdleCall]

NextOverlap ==
  \/ \E f \in OverlapFiles : HandleFileInput(f)
  \/ \E d \in Range(PRINT_DIMENSIONS) : ToggleDimension(d)
  \/ HandleReset
  \/ \E b \in OverlapIds : HandleUpscale(b)
  \/ \E b \in OverlapIds : ClientValidateDone(b)
  \/ \E b \in OverlapIds : ClientHealthDone(b)
  \/ \E b \in OverlapIds : ClientPostRefused(b)
  \/ \E b \in OverlapIds : ClientPostDone(b)
  \/ \E r \in DOMAIN reqs : IndexUpload(r) /\ UNCHANGED client
  \/ \E r \in DOMAIN reqs : IndexMetadataDone(r) /\ UNCHANGED client
  \/ \E r \in DOMAIN reqs : IndexFinalDone(r) /\ UNCHANGED client

SpecOverlap == InitOverlap /\ [][NextOverlap]_vars

\* ------------------------------------------------------------------------
\* Vocabulary of the properties
\* ------------------------------------------------------------------------
Ended(q) == q.pc = "done"
Succeeded(q) == q.pc = "done" /\ q.res.status = 200

\* the upload passes multer: a file part with an image/ type within the ceiling
Accepted(q) == q.pc # "idle" /\ q.file.present /\ MulterError(q.handler, q.file) = NoErr

\* a decodable image with both dimensions positive
ValidImage(i) == i.kind = "ok" /\ i.width > 0 /\ i.height > 0

\* the caller asks for a positive integer width and height
AsksForSize(query) ==
  ValidDimension(ParseInt(query.width)) /\ ValidDimension(ParseInt(query.height))

OmitsTarget(query) == ~query.width.present /\ ~query.height.present /\ ~query.dpi.present

\* the achieved size reported with the response equals the size asked for
ReportsRequestedSize(q) ==
  /\ q.res.width = ParseInt(q.query.width)
  /\ q.res.height = ParseInt(q.query.height)

\* ------------------------------------------------------------------------
\* Properties
\* ------------------------------------------------------------------------
\* C1: for every valid image of at most MAX_SAFE_PIXELS pixels and every
\* requested width and height, a successful resize reports exactly the
\* requested width and height (1x1 to 7200x10800 returns 7200x10800).
C1_ExactRequestedSize ==
  \A r \in DOMAIN reqs :
    LET q == reqs[r]
    IN (/\ Succeeded(q)
        /\ ValidImage(q.file.image)
        /\ q.file.image.width * q.file.image.height <= MAX_SAFE_PIXELS
        /\ AsksForSize(q.query))
       => ReportsRequestedSize(q)

\* C2: when width, height and dpi are omitted, the target handed to the
\* resize pipeline is 7200 x 10800 at 300 DPI.
C2_DefaultTarget ==
  \A r \in DOMAIN reqs :
    LET q == reqs[r]
    IN (q.resize.called /\ OmitsTarget(q.query))
       => /\ q.resize.width = Num(DEFAULT_WIDTH)
          /\ q.resize.height = Num(DEFAULT_HEIGHT)
          /\ q.options.dpi = Num(DEFAULT_DPI)

\* C3: whatever the caller asks for, the width and the height passed to the
\* resample step are each at most 10000.
C3_EdgesCapped ==
  \A r \in DOMAIN reqs :
    LET q == reqs[r]
    IN q.resize.called
       => /\ ~q.resize.width.nan /\ q.resize.width.v <= MAX_EDGE
          /\ ~q.resize.height.nan /\ q.resize.height.v <= MAX_EDGE

\* the intermediate buffer of the progressive-downscale step holds at most
\* MAX_SAFE_PIXELS pixels
IntermediateWithinCeiling ==
  \A r \in DOMAIN reqs :
    LET q == reqs[r]
    IN q.path = "oversized"
       => q.intermediate.width * q.intermediate.height <= MAX_SAFE_PIXELS

\* C4: for every image of more than MAX_SAFE_PIXELS pixels the intermediate
\* image of the progressive-downscale step has at most MAX_SAFE_PIXELS
\* pixels, and the final output has exactly the requested width and height.
C4_DownscaleTransparent ==
  \A r \in DOMAIN reqs :
    LET q == reqs[r]
    IN (q.path = "oversized" /\ ValidImage(q.file.image))
       => /\ q.intermediate.width * q.intermediate.height <= MAX_SAFE_PIXELS
          /\ (Succeeded(q) /\ AsksForSize(q.query)) => ReportsRequestedSize(q)

\* the request is served by one of the express handlers of server/index.js
Express(q) == q.handler \in {"index", "legacy"}

\* a file part whose declared type does not start with image/
WrongType(q) == q.pc # "idle" /\ q.file.present /\ ~StartsWithImage(q.file.mimetype)

\* a file part with an image/ type and more bytes than the handler's ceiling
OverCeiling(q) ==
  /\ q.pc # "idle" /\ q.file.present /\ StartsWithImage(q.file.mimetype)
  /\ q.file.size > MAX_FILE_SIZE(q.handler)

\* the response rejects the upload for its size
RejectedForSize(q) ==
  q.res.error = "File too large" \/ q.res.details.text = MsgFileTooLarge

\* C5: an upload whose declared MIME type does not start with image/ is
\* rejected with status 400 (the handler's 'Upload failed' error, details
\* 'Only image files are allowed'), and the buffer is never handed to the
\* decoder nor resampled.
C5_WrongTypeRejected ==
  \A r \in DOMAIN reqs :
    LET q == reqs[r]
    IN (Express(q) /\ WrongType(q))
       => /\ q.decodes = 0 /\ q.resamples = 0
          /\ q.pc \in {"received", "done"}
          /\ Ended(q) => q.res = Json(400, "Upload failed", Details(MsgOnlyImages, <<>>))

\* C5 witness: a text/plain upload was answered 400 without a decode
C5_Witness ==
  \E r \in DOMAIN reqs :
    LET q == reqs[r]
    IN /\ q.handler = "index" /\ WrongType(q) /\ Ended(q)
       /\ q.file.mimetype = Chars("text/plain") /\ q.file.size > 0
       /\ q.res.status = 400 /\ q.decodes = 0

\* C6: an upload of more than the configured ceiling is rejected with status
\* 400 before any decode and the error message carries the configured limit;
\* an upload of exactly the ceiling is not rejected for size.
C6_OverCeilingRejected ==
  \A r \in DOMAIN reqs :
    LET q == reqs[r]
    IN Express(q)
       => /\ OverCeiling(q)
             => /\ q.decodes = 0
                /\ Ended(q) => /\ q.res.status = 400
                               /\ q.res.details.args = <<MAX_FILE_SIZE(q.handler) \div MB>>
          /\ (Ended(q) /\ q.file.present /\ q.file.size = MAX_FILE_SIZE(q.handler))
             => ~RejectedForSize(q)

\* C7: a zero-length upload is rejected with status 400 before the buffer
\* reaches the decoder.
C7_EmptyRejected ==
  \A r \in DOMAIN reqs :
    LET q == reqs[r]
    IN (Express(q) /\ Accepted(q) /\ q.file.size = 0)
       => /\ q.decodes = 0
          /\ Ended(q) => q.res.status = 400

\* C8: when the decoded metadata of an accepted upload has a zero or absent
\* width or height, the request fails with status 400 and no resample is
\* performed.
C8_InvalidDimensionsRejected ==
  \A r \in DOMAIN reqs :
    LET q == reqs[r]
        i == q.file.image
    IN (Express(q) /\ Accepted(q) /\ i.kind = "ok" /\ (i.width = 0 \/ i.height = 0))
       => /\ q.resamples = 0
          /\ Ended(q) => q.res.status = 400

\* the decode-metadata step of the request has failed
DecodeFailed(q) ==
  /\ Accepted(q) /\ Ended(q) /\ q.decodes >= 1
  /\ SharpOpen(q.file) # NoErr \/ MetadataError(q.file.image) # NoErr

\* C9: every failure of the decode-metadata step ends the request with the
\* 'Unsupported image format' error and status 400.
C9_DecodeFailureIs400 ==
  \A r \in DOMAIN reqs :
    LET q == reqs[r]
    IN (q.handler = "index" /\ DecodeFailed(q))
       => q.res.status = 400 /\ q.res.error = "Unsupported image format"

\* one response, well formed: the image with its headers, or a JSON error
\* with one of the given statuses
OneResponse(q, errorStatuses) ==
  /\ q.sent <= 1
  /\ Ended(q) <=> q.sent = 1
  /\ ~Ended(q) => q.res = NoResponse
  /\ Ended(q)
     => \/ /\ q.res.status = 200 /\ q.res.kind = "image/jpeg"
           /\ ValidDimension(q.res.width) /\ ValidDimension(q.res.height)
           /\ ~q.res.dpi.nan
        \/ /\ q.res.status \in errorStatuses /\ q.res.kind = "json"
           /\ q.res.error # ""

\* C10 as stated: every request ends with exactly one response, status 200
\* with the JPEG and its width/height/DPI headers or a JSON error with status
\* 400 or 500; no failing request sends image bytes.
C10_Original ==
  \A r \in DOMAIN reqs : OneResponse(reqs[r], {400, 500})

\* C10 amended: every request ends with exactly one response, status 200
\* with the JPEG and its width/height/DPI headers or a JSON error with status
\* 400 or 500, or 405 when api/upscale.ts is called with a method other than
\* POST; no failing request sends image bytes.
C10_OneResponse ==
  \A r \in DOMAIN reqs :
    LET q == reqs[r]
    IN /\ OneResponse(q, {400, 405, 500})
       /\ (Ended(q) /\ q.res.status = 405) <=> (Ended(q) /\ q.handler = "api" /\ q.method # "POST")

\* C10 witness: a resample that had started failed, and the request ended
\* with one JSON error of status 500
C10_Witness ==
  \E r \in DOMAIN reqs :
    LET q == reqs[r]
    IN /\ Ended(q) /\ q.resamples >= 1 /\ q.sent = 1
       /\ q.res.status = 500 /\ q.res.kind = "json"

\* ------------------------------------------------------------------------
\* Failures of the pipeline and their answers
\* ------------------------------------------------------------------------
\* the request ended in the catch of its handler after the buffer had been
\* handed to the decoder
PipelineFailed(q) == Ended(q) /\ q.thrown # NoErr /\ q.decodes >= 1

\* the failures the caller's input is at fault for
CallerInputFault(e) == e.message \in {MsgUnsupported, MsgPixelLimit}

\* the allocation failure of a resample
AllocationFailure(e) == e.message = MsgMemory

\* the answer to a failed request, by the class of the failure
FailureAnswered(q) ==
  LET e == q.thrown
  IN /\ q.res.status = (IF CallerInputFault(e) THEN 400 ELSE 500)
     /\ AllocationFailure(e) => q.res.error = "Out of memory"
     /\ (~CallerInputFault(e) /\ ~AllocationFailure(e))
        => /\ q.res.error = "Processing failed"
           /\ q.res.details = Details(e.message, <<>>)

\* C11: every failure raised by the resize pipeline is answered 400 exactly
\* when it is a caller-input fault (unsupported format, image too large) and
\* 500 otherwise; an allocation failure is answered 500 'Out of memory', any
\* other unclassified failure 500 'Processing failed' with the underlying
\* detail.
C11_FailureStatus ==
  \A r \in DOMAIN reqs :
    LET q == reqs[r]
    IN (q.handler \in {"index", "api"} /\ PipelineFailed(q)) => FailureAnswered(q)

\* the same for the handler of server/index.js alone, whose catch has all
\* four branches
IndexFailureStatus ==
  \A r \in DOMAIN reqs :
    LET q == reqs[r]
    IN (q.handler = "index" /\ PipelineFailed(q)) => FailureAnswered(q)

\* ------------------------------------------------------------------------
\* The oversized path
\* ------------------------------------------------------------------------
\* the image has been classified
Classified(q) == q.path # "none"

\* C19: the pipeline takes the oversized path exactly when decoded width x
\* height is strictly greater than 100,000,000; an image of exactly
\* 100,000,000 pixels, and every smaller one whatever the length of either
\* edge, is processed on the direct path.
C19_OversizedExactly ==
  \A r \in DOMAIN reqs :
    LET q == reqs[r]
    IN (q.handler \in {"index", "legacy"} /\ Classified(q))
       => (q.path = "direct"
             <=> q.metadata.width * q.metadata.height <= MAX_SAFE_PIXELS)

\* the same for processImageInChunks of server/index.js 405-499 alone
IndexOversizedExactly ==
  \A r \in DOMAIN reqs :
    LET q == reqs[r]
    IN (q.handler = "index" /\ Classified(q))
       => /\ q.path \in {"direct", "oversized"}
          /\ q.path = "oversized"
               <=> q.metadata.width * q.metadata.height > MAX_SAFE_PIXELS

\* C20: on the oversized path the intermediate resample crops nothing: the
\* intermediate size with the fit policy of that resample keeps the whole
\* image, so that only the final resample crops.
C20_IntermediateKeepsAll ==
  \A r \in DOMAIN reqs :
    LET q == reqs[r]
    IN (q.path = "oversized" /\ q.resamples >= 1) => q.cropped = NoSize

\* ------------------------------------------------------------------------
\* Two runs of the pipeline
\* ------------------------------------------------------------------------
\* two requests that carried the same buffer and the same target have ended
SameRunTwice(a, b) ==
  /\ Ended(a) /\ Ended(b)
  /\ a.handler = b.handler /\ a.file = b.file /\ a.query = b.query
  /\ a.decodes >= 1 /\ b.decodes >= 1

\* status and error of the response
Kind(q) == <<q.res.status, q.res.error>>

\* the achieved width and height reported with the response
AchievedSize(q) == <<q.res.width, q.res.height>>

\* a failure of the runtime during a resample (allocation, encoder)
RuntimeFailure(e) == e.message \in {MsgMemory, MsgOther}

AsksForDpi(query) == ValidDensity(ParseInt(query.dpi))

\* two requests with the same buffer, width and height; the dpi may differ
SameButDpi(a, b) ==
  /\ a.handler = "index" /\ b.handler = "index"
  /\ a.file = b.file
  /\ a.query.width = b.query.width /\ a.query.height = b.query.height

FinalOutcomes(o, w, h, limit) ==
  {IndexCatch(e) : e \in ToBufferErrors(w, h, limit)}
    \cup (IF ToBufferCanResolve(w, h, limit)
          THEN {ImageResponse(CoverInfo(o.width, o.height), o.dpi)}
          ELSE {})

\* the responses a request to the index handler can end with when it is the
\* only request the server handles
AloneOutcomes(file, query) ==
  LET o == IndexOptions(query)
      w == file.image.width
      h == file.image.height
      iw == IntermediateWidth(w, h)
      ih == IntermediateHeight(w, h)
      invalid == ResizeError(o.width, o.height, o.dpi)
  IN IF MulterError("index", file) # NoErr
     THEN {IndexUploadError(MulterError("index", file))}
     ELSE IF ~file.present
     THEN {Json(400, "No file uploaded", Details("Please select an image file", <<>>))}
     ELSE IF SharpOpen(file) # NoErr THEN {IndexCatch(SharpOpen(file))}
     ELSE IF MetadataError(file.image) # NoErr THEN {IndexCatch(MetadataError(file.image))}
     ELSE IF Oversized(w, h)
     THEN IF ResizeOnlyError(Num(iw), Num(ih)) # NoErr
          THEN {IndexCatch(ResizeOnlyError(Num(iw), Num(ih)))}
          ELSE {IndexCatch(e) : e \in ToBufferErrors(w, h, 0)}
                 \cup (IF invalid # NoErr THEN {IndexCatch(invalid)}
                       ELSE FinalOutcomes(o, iw, ih, SHARP_DEFAULT_PIXEL_LIMIT))
     ELSE IF invalid # NoErr THEN {IndexCatch(invalid)}
     ELSE FinalOutcomes(o, w, h, 0)

\* C14: no state is shared between concurrent resize requests: under every
\* interleaving of the requests in flight, each request ends with an outcome
\* (status, error, achieved width and height) it can get when it runs alone
\* on its own buffer and target.
C14_Independent ==
  \A r \in DOMAIN reqs :
    LET q == reqs[r]
    IN Ended(q) => q.res \in AloneOutcomes(q.file, q.query)

\* C14 witness: a request that arrived while another one, with another
\* target, was in flight has succeeded, and the other one is still in flight
C14_Witness ==
  \E a, b \in DOMAIN reqs :
    /\ a # b /\ reqs[a].met = 1 /\ Succeeded(reqs[a])
    /\ InFlight(reqs[b]) /\ reqs[b].resamples >= 1
    /\ reqs[b].options # reqs[a].options

\* ------------------------------------------------------------------------
\* The client's batch
\* ------------------------------------------------------------------------
\* the server ran the pipeline of the request once: one final resample, one
\* intermediate resample before it on the oversized path, nothing after a
\* failure
ServerRanOnce(q) ==
  /\ q.resamples <= (IF q.path = "oversized" THEN 2 ELSE 1)
  /\ q.sent <= 1
  /\ q.thrown # NoErr => Ended(q)

\* the ids of the first n dimensions of the batch
FirstIds(c, n) == [k \in 1..n |-> c.dimensions[k].id]

\* C15: a failed resize is never retried automatically: the server runs the
\* pipeline at most once per request, and after uploadAndProcessImage has
\* failed for a dimension the batch sends no further resize request, for
\* that dimension or a later one: the POSTs of a batch are those of its
\* first dimensions, one each and in order, up to the one that failed.
C15_NoRetry ==
  /\ \A r \in DOMAIN reqs : ServerRanOnce(reqs[r])
  /\ \A b \in DOMAIN calls :
       LET c == calls[b]
       IN /\ Len(c.posts) <= c.i
          /\ c.posts = FirstIds(c, Len(c.posts))
          /\ c.thrown.thrown => /\ c.pc = "done"
                                /\ reqs[b].pc = "idle"

\* C15 witness: the first POST of a batch of several dimensions was answered
\* with an error; the batch has ended with that one POST
C15_Witness ==
  \E b \in DOMAIN calls :
    LET c == calls[b]
    IN /\ c.thrown = Thrown(TRUE, Details(MsgProcessingFailed, <<>>))
       /\ Len(c.dimensions) >= 2 /\ c.i = 1 /\ Len(c.posts) = 1
       /\ c.pc = "done" /\ ~app.isProcessing

\* C16: in uploadAndProcessImage the resize POST is sent only after the
\* validation of the client has passed and the health endpoint has answered
\* with status 'ok' for that same call; when the validation fails, the health
\* request fails or the health status is not 'ok', no POST is sent.
C16_PostAfterAdmission ==
  \A b \in DOMAIN calls :
    LET c == calls[b]
    IN /\ c.posted => /\ c.validated /\ ValidateImage(c.file) = NoDetails
                      /\ c.health = "ok"
       /\ reqs[b].pc # "idle" => c.posted /\ c.pc = "posting"
       /\ (ValidateImage(c.file) # NoDetails \/ c.health \in {"starting", "unreachable"})
          => ~c.posted /\ reqs[b].pc = "idle"

\* C16 witness: a call whose validation passed and whose health check came
\* back 'ok' has sent its POST, which the server has received
C16_Witness ==
  \E b \in DOMAIN calls :
    LET c == calls[b]
    IN /\ c.posted /\ c.validated /\ c.health = "ok"
       /\ reqs[b].pc = "received" /\ reqs[b].file = c.file

\* a file as the page advertises it: JPG, PNG or WebP, not empty, at most
\* 25MB, with pixel dimensions the client accepts
Advertised(file) ==
  /\ file.present /\ file.mimetype \in AllowedTypes
  /\ file.size > 0 /\ file.size <= ADVERTISED_MAX_FILE_SIZE
  /\ ValidateImageDimensions(file) = NoDetails

\* C17: every non-empty JPG, PNG or WebP file of at most 25MB, with pixel
\* dimensions the client accepts, passes validateImage and is submitted to
\* the server, which does not reject it for size.
C17_AdvertisedFileSubmitted ==
  \A b \in DOMAIN calls :
    LET c == calls[b]
    IN (c.pc # "idle" /\ Advertised(c.file))
       => /\ c.thrown.thrown => c.validated
          /\ Ended(reqs[b]) => ~RejectedForSize(reqs[b])

\* C18: for every entry of PRINT_DIMENSIONS the pixel size on its selector
\* card equals the width and height of the image the server returns when the
\* entry is processed through uploadAndProcessImage and the handler.
C18_CardMatchesResult ==
  \A b \in DOMAIN calls :
    \A k \in DOMAIN calls[b].results :
      LET x == calls[b].results[k]
      IN /\ x.width = ParseIntChars(CardWidth(x.dimension))
         /\ x.height = ParseIntChars(CardHeight(x.dimension))

\* the entries whose card shows no edge above the cap of the handler do come
\* back with the size on the card
UncappedCardsMatch ==
  \A b \in DOMAIN calls :
    \A k \in DOMAIN calls[b].results :
      LET x == calls[b].results[k]
      IN (TargetWidth(x.dimension) <= MAX_EDGE /\ TargetHeight(x.dimension) <= MAX_EDGE)
         => /\ x.width = ParseIntChars(CardWidth(x.dimension))
            /\ x.height = ParseIntChars(CardHeight(x.dimension))

\* ------------------------------------------------------------------------
\* Edges handed to the resamples
\* ------------------------------------------------------------------------
\* C21: for every oversized input (width >= 1, height >= 1, more than
\* MAX_SAFE_PIXELS pixels), extreme aspect ratios such as 1 x 200,000,000
\* included, both intermediate dimensions are at least 1, so that the
\* intermediate resample is never asked for a zero-sized edge.
C21_IntermediatePositive ==
  \A r \in DOMAIN reqs :
    LET q == reqs[r]
    IN (q.path = "oversized" /\ q.metadata.width >= 1 /\ q.metadata.height >= 1)
       => q.intermediate.width >= 1 /\ q.intermediate.height >= 1

\* processImageInChunks has been called with the options of the request
HandedToPipeline(q) ==
  \/ q.handler = "index" /\ q.decodes >= 1
  \/ q.handler = "legacy" /\ q.decodes >= 2

\* an integer edge in 1..MAX_EDGE
EdgeInRange(x) == ~x.nan /\ x.v >= 1 /\ x.v <= MAX_EDGE

\* C22: for every value of the width and height query parameters (absent,
\* non-numeric, zero, negative, larger than 10000), the width and height
\* handed to the resize pipeline are integers in the range 1..10000.
C22_EdgesInRange ==
  \A r \in DOMAIN reqs :
    LET q == reqs[r]
    IN HandedToPipeline(q)
       => EdgeInRange(q.options.width) /\ EdgeInRange(q.options.height)

\* what does hold at the index handler: the edges are integers of at most
\* MAX_EDGE
IndexEdgesCapped ==
  \A r \in DOMAIN reqs :
    LET q == reqs[r]
    IN (q.handler = "index" /\ HandedToPipeline(q))
       => /\ ~q.options.width.nan /\ q.options.width.v <= MAX_EDGE
          /\ ~q.options.height.nan /\ q.options.height.v <= MAX_EDGE

\* ------------------------------------------------------------------------
\* handleReset and a running batch
\* ------------------------------------------------------------------------
\* C23: after handleReset, processedImages stays empty until the user starts
\* a new handleUpscale, even when a batch was in flight at the reset: what
\* processedImages holds is always the result of a batch during which no
\* handleReset ran.
C23_StaleBatchDiscarded ==
  app.processedImages # <<>>
  => \E b \in DOMAIN calls :
       /\ calls[b].pc = "done" /\ ~calls[b].reset
       /\ calls[b].results = app.processedImages

RunningBatches == {b \in DOMAIN calls : Running(calls[b])}

\* C24: isProcessing is true in every state in which a handleUpscale batch
\* is in flight and false in every state in which none is, under any
\* interleaving of handleUpscale, handleReset, file selection and request
\* completions; consequently no second batch is started while one is in
\* flight.
C24_ProcessingIffInFlight ==
  /\ app.isProcessing <=> RunningBatches # {}
  /\ Cardinality(RunningBatches) <= 1

\* two batches are in flight at once
TwoBatchesInFlight == Cardinality(RunningBatches) = 2

\* ------------------------------------------------------------------------
\* What the App shows after a failure
\* ------------------------------------------------------------------------
\* the batch ended because validateImage rejected its file
ValidationFailed(c) ==
  c.pc = "done" /\ c.thrown.thrown /\ ValidateImage(c.file) # NoDetails

\* C26: when uploadAndProcessImage rejects because client validation failed
\* (wrong format, over the size limit, empty file, dimensions below 100 or
\* above 8000), the error the App stores and displays is the message of the
\* ImageValidationError.
C26_ValidationMessageShown ==
  \A b \in DOMAIN calls :
    (ValidationFailed(calls[b]) /\ app.preview /\ app.error # NoDetails)
    => app.error = ValidateImage(calls[b].file)

\* ------------------------------------------------------------------------
\* handleUpscale is all-or-nothing
\* ------------------------------------------------------------------------
\* the step ends the batch b: its finally block runs
Finishes(b) == Running(calls[b]) /\ calls'[b].pc = "done"

\* every selected dimension was requested and has its result, in the order
\* of the selection
AllProcessed(c) ==
  /\ ~c.thrown.thrown
  /\ Len(c.results) = Len(c.dimensions)
  /\ \A k \in DOMAIN c.results : c.results[k].dimension = c.dimensions[k]
  /\ c.posts = FirstIds(c, Len(c.dimensions))

\* the requests of a batch follow the selection, and each is sent only when
\* all the earlier ones have been answered
OneAtATime(c) ==
  /\ Len(c.posts) <= Len(c.dimensions)
  /\ c.posts = FirstIds(c, Len(c.posts))
  /\ Len(c.posts) - Len(c.results) \in {0, 1}

AllOrNothingStep ==
  /\ app'.processedImages # app.processedImages
     => \/ app'.processedImages = <<>>
        \/ \E b \in DOMAIN calls :
             /\ Finishes(b) /\ AllProcessed(calls'[b])
             /\ app'.processedImages = calls'[b].results
  /\ \A b \in DOMAIN calls :
       (Finishes(b) /\ calls'[b].thrown.thrown)
       => /\ app'.processedImages = app.processedImages
          /\ app'.error # NoDetails
          /\ Len(calls'[b].posts) <= calls'[b].i
          /\ Len(calls'[b].results) = calls'[b].i - 1
  /\ \A b \in DOMAIN calls : OneAtATime(calls'[b])

\* C25: handleUpscale is all-or-nothing. processedImages is replaced only
\* when every selected dimension has been processed, in the order of the
\* selection and with one request in flight at a time; when a dimension
\* fails, processedImages is left as it was, the remaining dimensions are
\* not requested and the error is set.
C25_AllOrNothing == [][AllOrNothingStep]_vars

\* a batch of several dimensions failed after its first result was there
C25_Witness ==
  \E b \in DOMAIN calls :
    LET c == calls[b]
    IN /\ c.pc = "done" /\ c.thrown.thrown
       /\ Len(c.results) >= 1 /\ c.i < Len(c.dimensions)
       /\ app.processedImages = <<>> /\ app.error # NoDetails

\* a batch of several dimensions went through and its results are shown
BatchShown ==
  \E b \in DOMAIN calls :
    /\ AllProcessed(calls[b]) /\ Len(calls[b].dimensions) >= 2
    /\ app.processedImages = calls[b].results

====
